---- MODULE Spec2Model ----
(***************************************************************************)
(* A state-machine model of the ChatInput component of the agent client.   *)
(*                                                                         *)
(* ChatInput is a controlled React component: the input text and the       *)
(* attached images live in the parent and come in as the props inputValue  *)
(* and attachedImages; the component changes them only by calling          *)
(* onInputChange(v) and onAttachedImagesChange(list).  Every handler runs  *)
(* with the values of the render it was created in.  A DOM event always    *)
(* runs the handler of the latest render, so it reads the live state; the  *)
(* one asynchronous handler, processImageFiles, keeps running after its    *)
(* first await with the closure of the render in which the paste or drop   *)
(* happened, so it reads the attachedImages of that render for the rest    *)
(* of the batch.                                                           *)
(*                                                                         *)
(* Text is a sequence of one-character strings.  An attached image is the  *)
(* record of its data and mimeType; its id is a fresh UUID that is only    *)
(* used to name the image to remove, so removal is by position.            *)
(***************************************************************************)
EXTENDS Integers, Sequences, FiniteSets, TLC

(***************************************************************************)
(* Program constants.                                                      *)
(***************************************************************************)
MAX_IMAGE_SIZE_MB == 5

MAX_IMAGE_SIZE_BYTES == MAX_IMAGE_SIZE_MB * 1024 * 1024

MAX_IMAGE_COUNT == 10

SUPPORTED_IMAGE_TYPES == {"image/png", "image/jpeg", "image/gif", "image/webp"}

(***************************************************************************)
(* Bounds of the model.                                                    *)
(***************************************************************************)
\* Ingestion batches (pastes and drops that reach processImageFiles) started
\* in a run.
MaxBatches == 1

\* How far dragCounterRef may go from 0, either way.
MaxDragDepth == 2

\* How many chat views are ever mounted.
MaxViews == 3

\* The display names of the floating chats.
Names == {"Chat", "Chat 2", "Research"}


(***************************************************************************)
(* Values.                                                                 *)
(***************************************************************************)
\* hintText is a string or null.  The component only tests it for truthiness
\* (if (hintText), hintText && ...), which null and "" both fail: both are <<>>.
NoHint == <<>>

\* restoredMessage is a string or null, tested for truthiness alike.
NoDraft == <<>>

\* The drafts the parent may hand back as restoredMessage.
Drafts == { << "d" >> }

\* An empty slot of inflight, and the batch field of an event that ended none.
NoBatch ==
    [ files |-> <<>>, images |-> <<>>, pos |-> 0, addedCount |-> 0, notices |-> <<>>,
      decoded |-> <<>>, failed |-> {}, stoppedAt |-> 0, interleaved |-> FALSE,
      done |-> FALSE ]

\* The files the environment may paste or drop: a 2 MiB PNG, a JPEG of
\* exactly 5 MiB, a JPEG one byte above 5 MiB and a plain text file.

Png2M == [bytes |-> "png2M", type |-> "image/png", size |-> 2 * 1024 * 1024]

Jpeg5M == [bytes |-> "jpeg5M", type |-> "image/jpeg", size |-> MAX_IMAGE_SIZE_BYTES]

Jpeg5M1 == [bytes |-> "jpeg5M1", type |-> "image/jpeg", size |-> MAX_IMAGE_SIZE_BYTES + 1]

TextFile == [bytes |-> "text", type |-> "text/plain", size |-> 1024]

FilePool == { Png2M, Jpeg5M, Jpeg5M1, TextFile }

\* The file lists one paste or one drop may carry.
FileLists ==
    { <<>>, <<TextFile>>, <<Png2M>>, <<Jpeg5M1>>, <<Png2M, Jpeg5M>>, <<Png2M, Jpeg5M1>>,
      <<Jpeg5M1, Jpeg5M>>, <<TextFile, Jpeg5M>> }

\* The texts the user may type into the textarea.
Texts ==
    { <<>>, <<" ">>, <<" ", "a", "\n">>, <<"/", "c", " ", "h">> }

\* The slash commands the agent offers: one with a hint, one without.
availableCommands == { [name |-> "c", hint |-> <<"h">>], [name |-> "d", hint |-> NoHint] }

\* The notes the mention engine suggests.
NotePool == { "n" }

(***************************************************************************)
(* String.prototype.trim.                                                  *)
(***************************************************************************)
WhiteSpace == {" ", "\n", "\t"}

RECURSIVE TrimStart(_)
TrimStart(s) ==
    IF s = <<>> THEN s
    ELSE IF Head(s) \in WhiteSpace THEN TrimStart(Tail(s)) ELSE s

RECURSIVE TrimEnd(_)
TrimEnd(s) ==
    IF s = <<>> THEN s
    ELSE IF s[Len(s)] \in WhiteSpace THEN TrimEnd(SubSeq(s, 1, Len(s) - 1)) ELSE s

\* No trimming at all.
TrimNothing(s) == s

Trim(s) == TrimEnd(TrimStart(s))

(***************************************************************************)
(* Sequence helpers (Array.prototype.filter, map).                         *)
(***************************************************************************)
RECURSIVE SelectSeqIdx(_, _, _)
\* The subsequence of s of the positions i >= from with keep[i].
SelectSeqIdx(s, keep, from) ==
    IF from > Len(s) THEN <<>>
    ELSE (IF keep[from] THEN <<s[from]>> ELSE <<>>) \o SelectSeqIdx(s, keep, from + 1)

RemoveAt(s, i) == SelectSeqIdx(s, [j \in 1..Len(s) |-> j # i], 1)

\* The filter letting every file through.
FilterNothing(files) == files

\* The files of a whitelisted type, in order: lines 279-289 of handlePaste,
\* 354-356 of handleDrop.
FilterSupported(files) ==
    SelectSeqIdx(files, [j \in 1..Len(files) |-> files[j].type \in SUPPORTED_IMAGE_TYPES], 1)

VARIABLES
    inputValue,        \* prop inputValue: the text of the textarea
    attachedImages,    \* prop attachedImages: the images attached to the draft
    hintText,          \* useState hintText: the inline hint, or Null
    commandText,       \* useState commandText: the command the hint follows
    isDraggingOver,    \* useState isDraggingOver: the drop overlay is shown
    dragCounter,       \* dragCounterRef.current
    restoredMessage,   \* prop restoredMessage: the draft to restore, or null
    registry,          \* plugin.viewRegistry: the registered views, in order
    nextViewId,        \* the number of the next view to be mounted
    showInstanceMenu,  \* useState showInstanceMenu of the floating launcher
    inflight,          \* the suspended processImageFiles calls, by origin
    batches,           \* ingestion batches started so far
    event,             \* the last event dispatched, and the batch it ended
    calls,             \* the host calls the last event made, in order
    chatFontSizeValue, \* the value last given to parseChatFontSize
    chatFontSize       \* what parseChatFontSize returned for it

vars ==
    << inputValue, attachedImages, hintText, commandText, isDraggingOver, dragCounter,
       restoredMessage, registry, nextViewId, showInstanceMenu, inflight, batches,
       event, calls, chatFontSizeValue, chatFontSize >>

\* The state of the chat input.
inputState ==
    << inputValue, attachedImages, hintText, commandText, isDraggingOver, dragCounter,
       restoredMessage, inflight, batches >>

\* The state of the view registry and of the floating launcher.
launcherState == << registry, nextViewId, showInstanceMenu >>

\* The chat font size setting.
fontState == << chatFontSizeValue, chatFontSize >>

(***************************************************************************)
(* Host calls.  A handler is modelled by the sequence of calls it makes on *)
(* its props and on the host: onInputChange(text),                         *)
(* onAttachedImagesChange(images), onSendMessage(text, images),            *)
(* onStopGeneration(), new Notice(message), e.preventDefault(), the calls  *)
(* on the suggestion engines and the setters of its own state.             *)
(***************************************************************************)
Call(fn, text, images) == [fn |-> fn, text |-> text, images |-> images]

OnInputChange(v) == Call("onInputChange", v, <<>>)

OnAttachedImagesChange(imgs) == Call("onAttachedImagesChange", <<>>, imgs)

Notice(msg) == Call("Notice", <<msg>>, <<>>)

PreventDefault == Call("preventDefault", <<>>, <<>>)

Notices(log) == [i \in 1..Len(log) |-> Notice(log[i])]

RECURSIVE LastCall(_, _, _)
\* The last call of fn in cs, or the given default.
LastCall(cs, fn, default) ==
    IF cs = <<>> THEN default
    ELSE IF cs[Len(cs)].fn = fn THEN cs[Len(cs)]
    ELSE LastCall(SubSeq(cs, 1, Len(cs) - 1), fn, default)

\* The parent keeps the value it was last given (controlled props).
TextAfter(cs) == LastCall(cs, "onInputChange", OnInputChange(inputValue)).text

ImagesAfter(cs) ==
    LastCall(cs, "onAttachedImagesChange", OnAttachedImagesChange(attachedImages)).images

Called(cs, fn) == \E i \in 1..Len(cs) : cs[i].fn = fn

TimesCalled(cs, fn) == Cardinality({ i \in 1..Len(cs) : cs[i].fn = fn })

NoticeCount(cs, msg) ==
    Cardinality({ i \in 1..Len(cs) : cs[i].fn = "Notice" /\ cs[i].text = <<msg>> })

(***************************************************************************)
(* The event record: the event's name, whether images were attached when   *)
(* it was dispatched, whether it was a submit gesture (a click on the      *)
(* send button, or a keydown that reached the shouldSend branch of         *)
(* handleKeyDown) and with which props, and, when the event ended an       *)
(* ingestion batch, that batch.                                            *)
(***************************************************************************)
Props == [isSending : BOOLEAN, isSessionReady : BOOLEAN, isRestoringSession : BOOLEAN]

NoProps == [isSending |-> FALSE, isSessionReady |-> FALSE, isRestoringSession |-> FALSE]

Ev(name) ==
    [ name |-> name, hadImages |-> attachedImages # <<>>, submit |-> FALSE,
      props |-> NoProps, batch |-> NoBatch ]

\* Every event other than a batch's own resumption falls between its steps.
Touch(f) ==
    [s \in DOMAIN f |->
        IF f[s] = NoBatch THEN NoBatch ELSE [f[s] EXCEPT !.interleaved = TRUE]]

\* The restore effect without its call of onRestoredMessageConsumed.
restoreEffectUnconsumed(text, draft) ==
    IF draft = NoDraft THEN <<>>
    ELSE IF Trim(text) = <<>> THEN << OnInputChange(draft) >> ELSE <<>>

\* The effect of lines 739-756, run with the text and the draft of a render:
\* the calls it makes.
restoreEffect(text, draft) ==
    IF draft = NoDraft THEN <<>>
    ELSE (IF Trim(text) = <<>> THEN << OnInputChange(draft) >> ELSE <<>>)
         \o << Call("onRestoredMessageConsumed", <<>>, <<>>) >>

\* The parent's onRestoredMessageConsumed drops the draft: the restoredMessage
\* of the next render after these calls.
DraftAfter(cs, draft) ==
    IF \E i \in 1..Len(cs) : cs[i].fn = "onRestoredMessageConsumed" THEN NoDraft
    ELSE draft

\* The state after the calls cs: the parent stores what onInputChange and
\* onAttachedImagesChange gave it, React what setHintText and setCommandText
\* gave it.
Settle(cs) ==
    /\ calls' = cs
    /\ inputValue' = TextAfter(cs)
    /\ attachedImages' = ImagesAfter(cs)
    /\ hintText' = LastCall(cs, "setHintText", Call("setHintText", hintText, <<>>)).text
    /\ commandText' =
           LastCall(cs, "setCommandText", Call("setCommandText", commandText, <<>>)).text
    /\ restoredMessage' = DraftAfter(cs, restoredMessage)
    /\ UNCHANGED launcherState
    /\ UNCHANGED fontState

\* The state after a handler that made the calls cs: when it changed the
\* text while a draft is still held, the restore effect runs on the render
\* that follows (inputValue is one of its dependencies).
Apply(cs) ==
    IF restoredMessage = NoDraft THEN Settle(cs)
    ELSE Settle(cs \o (IF TextAfter(cs) # inputValue
                       THEN restoreEffect(TextAfter(cs), restoredMessage) ELSE <<>>))

(***************************************************************************)
(* Image ingestion.                                                        *)
(***************************************************************************)
\* FileReader.readAsDataURL: "data:<type>;base64,<payload>", as its parts
\* around the comma.
ReadAsDataURL(file) == << "data:" \o file.type \o ";base64", "b64:" \o file.bytes >>

\* fileToBase64: result.split(",")[1].
fileToBase64(file) == ReadAsDataURL(file)[2]

AttachedImage(file) == [data |-> fileToBase64(file), mimeType |-> file.type]

\* addImage checking the length of its render and appending to the live list.
addImageToLiveList(images, image) ==
    IF Len(images) >= MAX_IMAGE_COUNT THEN <<>>
    ELSE << OnAttachedImagesChange(Append(attachedImages, image)) >>

\* addImage, called by a batch with the attachedImages of its render: the
\* calls it makes.
addImage(images, image) ==
    IF Len(images) >= MAX_IMAGE_COUNT THEN <<>>
    ELSE << OnAttachedImagesChange(Append(images, image)) >>

\* The size check with >= for >.
TooLargeOrEqual(file) == file.size >= MAX_IMAGE_SIZE_BYTES

\* The size check of line 246.
TooLarge(file) == file.size > MAX_IMAGE_SIZE_BYTES

\* The cap check with > for >=.
CapExceeded(b) == Len(b.images) + b.addedCount > MAX_IMAGE_COUNT

\* The cap check of line 238: the images of the closure and those the batch
\* has added have reached MAX_IMAGE_COUNT.
CapReached(b) == Len(b.images) + b.addedCount >= MAX_IMAGE_COUNT

RECURSIVE processImageFiles(_, _)
\* The loop of processImageFiles from file i on, up to its next await or its
\* end.  b.images is the attachedImages the closure holds, b.notices the
\* notices of the batch so far, b.decoded the files given to fileToBase64.
processImageFiles(b, i) ==
    IF i > Len(b.files) THEN [b EXCEPT !.pos = 0, !.done = TRUE]
    ELSE IF CapReached(b)
    THEN [b EXCEPT !.notices = Append(@, "max"), !.stoppedAt = i,
                   !.pos = 0, !.done = TRUE]
    ELSE IF TooLarge(b.files[i])
    THEN processImageFiles([b EXCEPT !.notices = Append(@, "tooLarge")], i + 1)
    ELSE [b EXCEPT !.pos = i, !.decoded = Append(@, i)]

NewBatch(imageFiles) == [NoBatch EXCEPT !.files = imageFiles, !.images = attachedImages]

\* The rejection without its notice.
RejectUnsupportedSilently == << PreventDefault >>

\* The calls of a paste or drop of images when the agent supports none:
\* lines 294-299 of handlePaste, 360-365 of handleDrop.
RejectUnsupported == << PreventDefault, Notice("notSupported") >>

\* What a paste or a drop of these files does once the handler has the list:
\* lines 292-303 of handlePaste, 358-369 of handleDrop.
Ingest(slot, files, supportsImages) ==
    LET imageFiles == FilterSupported(files)
    IN  IF imageFiles = <<>>
        THEN /\ Apply(<<>>)
             /\ event' = Ev(slot)
             /\ inflight' = Touch(inflight)
             /\ UNCHANGED batches
        ELSE IF ~supportsImages
        THEN /\ Apply(RejectUnsupported)
             /\ event' = Ev(slot)
             /\ inflight' = Touch(inflight)
             /\ UNCHANGED batches
        ELSE LET b == processImageFiles(NewBatch(imageFiles), 1)
             IN  /\ batches < MaxBatches
                 /\ inflight[slot] = NoBatch
                 /\ batches' = batches + 1
                 /\ Apply(<< PreventDefault >> \o Notices(b.notices))
                 /\ event' = [Ev(slot) EXCEPT !.batch = IF b.done THEN b ELSE NoBatch]
                 /\ inflight' = [Touch(inflight) EXCEPT ![slot] = IF b.done THEN NoBatch ELSE b]

\* handlePaste(e), e.clipboardData.items being the files `items`.
handlePaste(items, supportsImages) ==
    /\ Ingest("paste", items, supportsImages)
    /\ UNCHANGED << isDraggingOver, dragCounter >>

\* handleDrop(e), e.dataTransfer.files being `files`: it ends the drag first.
handleDrop(files, supportsImages) ==
    /\ dragCounter' = 0
    /\ isDraggingOver' = FALSE
    /\ Ingest("drop", files, supportsImages)

Paste == \E items \in FileLists, supportsImages \in BOOLEAN : handlePaste(items, supportsImages)

Drop == \E files \in FileLists, supportsImages \in BOOLEAN : handleDrop(files, supportsImages)

\* handleDragEnter(e), hasFiles being e.dataTransfer.types.includes("Files").
handleDragEnter(hasFiles) ==
    /\ dragCounter < MaxDragDepth
    /\ dragCounter' = IF hasFiles THEN dragCounter + 1 ELSE dragCounter
    /\ isDraggingOver' = IF hasFiles /\ dragCounter + 1 = 1 THEN TRUE ELSE isDraggingOver
    /\ Apply(IF hasFiles THEN << PreventDefault >> ELSE <<>>)
    /\ event' = Ev("dragenter")
    /\ inflight' = Touch(inflight)
    /\ UNCHANGED batches

DragEnter == \E hasFiles \in BOOLEAN : handleDragEnter(hasFiles)

\* handleDragLeave(e).
handleDragLeave ==
    /\ dragCounter > -MaxDragDepth
    /\ dragCounter' = dragCounter - 1
    /\ isDraggingOver' = IF dragCounter - 1 = 0 THEN FALSE ELSE isDraggingOver
    /\ Apply(<<>>)
    /\ event' = Ev("dragleave")
    /\ inflight' = Touch(inflight)
    /\ UNCHANGED batches

DragLeave == handleDragLeave

\* The decode whose failure ends the batch.
DecodeSettlesEndingBatch(slot, ok) ==
    /\ inflight[slot] # NoBatch
    /\ LET b == inflight[slot]
           file == b.files[b.pos]
           b1 == IF ok THEN [b EXCEPT !.addedCount = @ + 1]
                 ELSE [b EXCEPT !.notices = Append(@, "failed"), !.failed = @ \cup {b.pos}]
           b2 == IF ok THEN processImageFiles(b1, b.pos + 1)
                 ELSE [b1 EXCEPT !.pos = 0, !.done = TRUE]
       IN  /\ Apply((IF ok THEN addImage(b.images, AttachedImage(file)) ELSE <<>>)
                    \o Notices(SubSeq(b2.notices, Len(b.notices) + 1, Len(b2.notices))))
           /\ event' = [Ev("decode") EXCEPT !.batch = IF b2.done THEN b2 ELSE NoBatch]
           /\ inflight' = [s \in DOMAIN inflight |->
                             IF s = slot THEN (IF b2.done THEN NoBatch ELSE b2)
                             ELSE Touch(inflight)[s]]
    /\ UNCHANGED << batches, isDraggingOver, dragCounter >>

\* fileToBase64 settles for the file a batch awaits: processImageFiles
\* resumes (lines 255-265) and runs to its next await or its end.
DecodeSettles(slot, ok) ==
    /\ inflight[slot] # NoBatch
    /\ LET b == inflight[slot]
           file == b.files[b.pos]
           b1 == IF ok THEN [b EXCEPT !.addedCount = @ + 1]
                 ELSE [b EXCEPT !.notices = Append(@, "failed"), !.failed = @ \cup {b.pos}]
           b2 == processImageFiles(b1, b.pos + 1)
       IN  /\ Apply((IF ok THEN addImage(b.images, AttachedImage(file)) ELSE <<>>)
                    \o Notices(SubSeq(b2.notices, Len(b.notices) + 1, Len(b2.notices))))
           /\ event' = [Ev("decode") EXCEPT !.batch = IF b2.done THEN b2 ELSE NoBatch]
           /\ inflight' = [s \in DOMAIN inflight |->
                             IF s = slot THEN (IF b2.done THEN NoBatch ELSE b2)
                             ELSE Touch(inflight)[s]]
    /\ UNCHANGED << batches, isDraggingOver, dragCounter >>

DecodeDone == \E slot \in DOMAIN inflight, ok \in BOOLEAN : DecodeSettles(slot, ok)

\* removeImage(id), id being the id of the image at position i.
removeImage(i) ==
    /\ i \in 1..Len(attachedImages)
    /\ Apply(<< OnAttachedImagesChange(RemoveAt(attachedImages, i)) >>)
    /\ event' = Ev("removeImage")
    /\ inflight' = Touch(inflight)
    /\ UNCHANGED << batches, isDraggingOver, dragCounter >>

RemoveImage == \E i \in 1..MAX_IMAGE_COUNT : removeImage(i)

\* The effect clearing the text with the images.
ClearImagesAndTextEffect ==
    /\ Apply(<< OnAttachedImagesChange(<<>>), OnInputChange(<<>>) >>)
    /\ inflight' = Touch(inflight)
    /\ UNCHANGED << batches, isDraggingOver, dragCounter >>

\* The effect of lines 180-182: it runs when agentId changes and when
\* onAttachedImagesChange is another function than at the last render.
ClearImagesEffect ==
    /\ Apply(<< OnAttachedImagesChange(<<>>) >>)
    /\ inflight' = Touch(inflight)
    /\ UNCHANGED << batches, isDraggingOver, dragCounter >>

\* The parent renders ChatInput with another agentId.
SwitchAgent ==
    /\ event' = Ev("agentId")
    /\ ClearImagesEffect

\* The parent renders ChatInput with the same agentId and another function
\* as onAttachedImagesChange.
CallbackIdentityChange ==
    /\ event' = Ev("onAttachedImagesChange")
    /\ ClearImagesEffect

(***************************************************************************)
(* The suggestion engines (hooks useMentions and useSlashCommands).  Their *)
(* state is theirs: a handler reads isOpen and the highlighted suggestion  *)
(* as inputs and the model records the calls it makes on them.             *)
(***************************************************************************)
\* slashCommands.selectSuggestion(text, command): the command token.
SlashSelectSuggestion(text, command) == << "/", command.name, " " >>

\* mentions.selectSuggestion(text, note): the text with the mention put in.
MentionSelectSuggestion(text, note) == << "@", note, " " >>

Engine(fn, arg) == Call(fn, <<arg>>, <<>>)

\* The calls after which an engine's dropdown is closed: its close() and its
\* selectSuggestion, which closes the dropdown it took the suggestion from.
ClosesDropdown(engine, cs) ==
    \E i \in 1..Len(cs) : cs[i].fn \in {engine \o ".close", engine \o ".selectSuggestion"}

(***************************************************************************)
(* Text input, sending and the keyboard.                                   *)
(***************************************************************************)
\* handleInputChange(e), e.target.value = newValue.
handleInputChange(newValue) ==
    /\ Apply(<< OnInputChange(newValue) >>
             \o (IF hintText # NoHint /\ newValue # commandText \o hintText
                 THEN << Call("setHintText", NoHint, <<>>),
                         Call("setCommandText", <<>>, <<>>) >>
                 ELSE <<>>)
             \o << Call("mentions.updateSuggestions", newValue, <<>>),
                   Call("slashCommands.updateSuggestions", newValue, <<>>) >>)
    /\ event' = Ev("input")
    /\ inflight' = Touch(inflight)
    /\ UNCHANGED << batches, isDraggingOver, dragCounter >>

InputChange == \E newValue \in Texts : handleInputChange(newValue)

\* imagesToSend: attachedImages.map(img => ({type, data, mimeType})).
ImagePromptContent(images) ==
    [i \in 1..Len(images) |->
        [type |-> "image", data |-> images[i].data, mimeType |-> images[i].mimeType]]

\* onSendMessage(content, images); no images stands for images = undefined.
OnSendMessage(content, images) == Call("onSendMessage", content, images)

\* handleSendOrStop calling onSendMessage before it clears the input.
handleSendOrStopSendFirst(isSending) ==
    IF isSending THEN << Call("onStopGeneration", <<>>, <<>>) >>
    ELSE IF Trim(inputValue) = <<>> /\ Len(attachedImages) = 0 THEN <<>>
    ELSE << OnSendMessage(Trim(inputValue), ImagePromptContent(attachedImages)),
            OnInputChange(<<>>),
            OnAttachedImagesChange(<<>>),
            Call("setHintText", NoHint, <<>>),
            Call("setCommandText", <<>>, <<>>) >>

\* handleSendOrStop: the calls it makes, in order.
handleSendOrStop(isSending) ==
    IF isSending THEN << Call("onStopGeneration", <<>>, <<>>) >>
    ELSE IF Trim(inputValue) = <<>> /\ Len(attachedImages) = 0 THEN <<>>
    ELSE << OnInputChange(<<>>),
            OnAttachedImagesChange(<<>>),
            Call("setHintText", NoHint, <<>>),
            Call("setCommandText", <<>>, <<>>),
            OnSendMessage(Trim(inputValue), ImagePromptContent(attachedImages)) >>

\* isButtonDisabled without the test of isRestoringSession.
isButtonDisabledIgnoringRestore(p) ==
    /\ ~p.isSending
    /\ \/ (Trim(inputValue) = <<>> /\ Len(attachedImages) = 0)
       \/ ~p.isSessionReady

\* isButtonDisabled without the exemption of isSending.
isButtonDisabledWhileSending(p) ==
    \/ (Trim(inputValue) = <<>> /\ Len(attachedImages) = 0)
    \/ ~p.isSessionReady
    \/ p.isRestoringSession

isButtonDisabled(p) ==
    /\ ~p.isSending
    /\ \/ (Trim(inputValue) = <<>> /\ Len(attachedImages) = 0)
       \/ ~p.isSessionReady
       \/ p.isRestoringSession

\* A click on the send/stop button rendered with the props p: a disabled
\* button dispatches no click.
ClickSendButton(p) ==
    /\ Apply(IF isButtonDisabled(p) THEN <<>> ELSE handleSendOrStop(p.isSending))
    /\ event' = [Ev("click") EXCEPT !.submit = TRUE, !.props = p]
    /\ inflight' = Touch(inflight)
    /\ UNCHANGED << batches, isDraggingOver, dragCounter >>

ClickSend == \E p \in Props : ClickSendButton(p)

\* A click on the enabled send button while no send is in flight.
ClickSendAccepted ==
    \E p \in Props : ~p.isSending /\ ~isButtonDisabled(p) /\ ClickSendButton(p)

Keys == {"Enter", "Tab", "Escape", "ArrowDown", "ArrowUp", "a"}

Shortcuts == {"enter", "cmd-enter"}

NoSelection == [name |-> "", hint |-> NoHint]

\* shouldSend of handleKeyDown.
ShouldSend(k) ==
    IF k.sendMessageShortcut = "enter" THEN ~k.shiftKey ELSE k.modKey

\* handleSelectSlashCommand(command).
handleSelectSlashCommand(command) ==
    << Engine("slashCommands.selectSuggestion", command.name),
       OnInputChange(SlashSelectSuggestion(inputValue, command)) >>
    \o (IF command.hint # NoHint
        THEN << Call("setCommandText", << "/", command.name, " " >>, <<>>),
                Call("setHintText", command.hint, <<>>) >>
        ELSE << Call("setHintText", NoHint, <<>>),
                Call("setCommandText", <<>>, <<>>) >>)

\* selectMention(suggestion), through setTextAndFocus.
selectMention(note) ==
    << Engine("mentions.selectSuggestion", note),
       OnInputChange(MentionSelectSuggestion(inputValue, note)) >>

\* handleDropdownKeyPress taking Enter during composition as well.
DropdownHandlesComposing(k) ==
    /\ k.slashIsOpen \/ k.mentionsIsOpen
    /\ k.key \in {"ArrowDown", "ArrowUp", "Tab", "Escape", "Enter"}

\* handleDropdownKeyPress(e): whether it handles the key (returns true).
DropdownHandles(k) ==
    /\ k.slashIsOpen \/ k.mentionsIsOpen
    /\ \/ k.key \in {"ArrowDown", "ArrowUp", "Tab", "Escape"}
       \/ k.key = "Enter" /\ ~k.isComposing

\* handleDropdownKeyPress with Escape asking the mention engine first.
handleDropdownKeyPressMentionsFirst(k) ==
    LET engine == IF k.slashIsOpen THEN "slashCommands" ELSE "mentions"
    IN  << PreventDefault >>
        \o (IF k.key = "ArrowDown" THEN << Engine(engine \o ".navigate", "down") >>
            ELSE IF k.key = "ArrowUp" THEN << Engine(engine \o ".navigate", "up") >>
            ELSE IF k.key = "Escape"
            THEN << Engine((IF k.mentionsIsOpen THEN "mentions" ELSE "slashCommands")
                           \o ".close", "") >>
            ELSE IF k.selected = NoSelection THEN <<>>
            ELSE IF k.slashIsOpen THEN handleSelectSlashCommand(k.selected)
            ELSE selectMention(k.selected.name))

\* handleDropdownKeyPress(e) when it handles the key: the calls it makes.
\* k.selected is suggestions[selectedIndex] of the active engine.
handleDropdownKeyPress(k) ==
    LET engine == IF k.slashIsOpen THEN "slashCommands" ELSE "mentions"
    IN  << PreventDefault >>
        \o (IF k.key = "ArrowDown" THEN << Engine(engine \o ".navigate", "down") >>
            ELSE IF k.key = "ArrowUp" THEN << Engine(engine \o ".navigate", "up") >>
            ELSE IF k.key = "Escape" THEN << Engine(engine \o ".close", "") >>
            ELSE IF k.selected = NoSelection THEN <<>>
            ELSE IF k.slashIsOpen THEN handleSelectSlashCommand(k.selected)
            ELSE selectMention(k.selected.name))

\* handleKeyDown(e) takes the key for the submit shortcut (lines 642-649).
SubmitShortcut(k) ==
    ~DropdownHandles(k) /\ k.key = "Enter" /\ ~k.isComposing /\ ShouldSend(k)

\* handleKeyDown(e): the calls it makes.
handleKeyDown(k) ==
    IF DropdownHandles(k) THEN handleDropdownKeyPress(k)
    ELSE IF SubmitShortcut(k)
    THEN << PreventDefault >>
         \o (IF ~isButtonDisabled(k.props) /\ ~k.props.isSending
             THEN handleSendOrStop(k.props.isSending) ELSE <<>>)
    ELSE <<>>

KeyDownEvent(k) ==
    /\ Apply(handleKeyDown(k))
    /\ event' = [Ev("keydown") EXCEPT !.submit = SubmitShortcut(k), !.props = k.props]
    /\ inflight' = Touch(inflight)
    /\ UNCHANGED << batches, isDraggingOver, dragCounter >>

Notes == { [name |-> n, hint |-> NoHint] : n \in NotePool }

\* The keydown events: a key with what the handler reads of the event, the
\* settings, the engines and the props on the way it takes.  What it does
\* not read on that way is left at its default.
KeyEvents ==
    { k \in [ key : Keys, isComposing : BOOLEAN, shiftKey : BOOLEAN, modKey : BOOLEAN,
              sendMessageShortcut : Shortcuts, slashIsOpen : BOOLEAN,
              mentionsIsOpen : BOOLEAN,
              selected : availableCommands \cup Notes \cup {NoSelection},
              props : Props ] :
        LET selects == DropdownHandles(k) /\ k.key \in {"Enter", "Tab"}
            shortcut == ~DropdownHandles(k) /\ k.key = "Enter" /\ ~k.isComposing
        IN  /\ k.isComposing => k.key = "Enter"
            /\ ~selects => k.selected = NoSelection
            /\ selects /\ k.slashIsOpen => k.selected \in availableCommands \cup {NoSelection}
            /\ selects /\ ~k.slashIsOpen => k.selected \in Notes \cup {NoSelection}
            /\ ~shortcut =>
                  ~k.shiftKey /\ ~k.modKey /\ k.sendMessageShortcut = "enter"
            /\ ~(shortcut /\ ShouldSend(k)) => k.props = NoProps }

KeyDown == \E k \in KeyEvents : KeyDownEvent(k)

\* The promise of onSendMessage or onStopGeneration that handleSendOrStop
\* awaits (lines 515, 538) settles.  The await stands in no try: a rejection
\* rejects the promise of handleSendOrStop, which both callers drop with
\* `void` (lines 651, 1057), so it ends as an unhandled rejection.
handleSendOrStopSettles(rejects) ==
    IF rejects THEN << Call("unhandledrejection", <<>>, <<>>) >> ELSE <<>>

\* The host callback the last submit gesture called settles.
HostCallbackSettles ==
    \E rejects \in BOOLEAN :
        /\ event.submit
        /\ Called(calls, "onSendMessage") \/ Called(calls, "onStopGeneration")
        /\ Apply(handleSendOrStopSettles(rejects))
        /\ event' = [Ev(IF rejects THEN "rejected" ELSE "resolved")
                        EXCEPT !.props = event.props]
        /\ inflight' = Touch(inflight)
        /\ UNCHANGED << batches, isDraggingOver, dragCounter >>

\* A click on an item of the slash-command dropdown: onSelect (line 914).
ClickSlashSuggestion ==
    \E command \in availableCommands :
        /\ Apply(handleSelectSlashCommand(command))
        /\ event' = Ev("selectSlash")
        /\ inflight' = Touch(inflight)
        /\ UNCHANGED << batches, isDraggingOver, dragCounter >>

\* A click on an item of the mention dropdown: onSelect (line 901).
ClickMentionSuggestion ==
    \E note \in NotePool :
        /\ Apply(selectMention(note))
        /\ event' = Ev("selectMention")
        /\ inflight' = Touch(inflight)
        /\ UNCHANGED << batches, isDraggingOver, dragCounter >>

\* The parent renders ChatInput with the draft m as restoredMessage: the
\* restore effect runs.
ProvideDraft ==
    \E m \in Drafts :
        /\ Settle(restoreEffect(inputValue, m))
        /\ event' = Ev("restore")
        /\ inflight' = Touch(inflight)
        /\ UNCHANGED << batches, isDraggingOver, dragCounter >>

\* The parent renders ChatInput with another inputValue that no handler of
\* the component asked for (IChatViewContainer.setInputState).
SetInputState ==
    \E v \in Texts :
        LET effect == restoreEffect(v, restoredMessage)
        IN  /\ v # inputValue
            /\ calls' = effect
            /\ inputValue' = LastCall(effect, "onInputChange", OnInputChange(v)).text
            /\ restoredMessage' = DraftAfter(effect, restoredMessage)
            /\ event' = Ev("setInputState")
            /\ inflight' = Touch(inflight)
            /\ UNCHANGED << attachedImages, hintText, commandText, batches,
                            isDraggingOver, dragCounter >>
            /\ UNCHANGED launcherState
            /\ UNCHANGED fontState

(***************************************************************************)
(* The view registry (plugin.viewRegistry) and the plugin's floating chats. *)
(* A registered view is a record of its viewId, its viewType, its display  *)
(* name and whether it is the focused one.                                 *)
(***************************************************************************)
ViewId(n) == "v" \o ToString(n)

ViewIds == { ViewId(n) : n \in 1..MaxViews }

\* What a view that mounts may be: a floating chat of some name, or the
\* docked chat.
ViewKinds ==
    { [viewType |-> "floating", name |-> n] : n \in Names }
    \cup { [viewType |-> "docked", name |-> "Chat"] }

IsRegistered(reg, id) == \E i \in 1..Len(reg) : reg[i].viewId = id

Focused(reg) == { reg[i].viewId : i \in { j \in 1..Len(reg) : reg[j].focused } }

\* viewRegistry.register(view): the view is added, not focused.
register(reg, id, kind) ==
    Append(reg, [ viewId |-> id, viewType |-> kind.viewType, name |-> kind.name,
                  focused |-> FALSE ])

\* setFocused leaving the view focused before as it was.
setFocusedKeepingPrevious(reg, id) ==
    [i \in 1..Len(reg) |-> [reg[i] EXCEPT !.focused = @ \/ reg[i].viewId = id]]

\* viewRegistry.setFocused(viewId): the view focused before is deactivated,
\* then this one activated; an id that is not registered changes nothing.
setFocused(reg, id) ==
    IF ~IsRegistered(reg, id) THEN reg
    ELSE [i \in 1..Len(reg) |-> [reg[i] EXCEPT !.focused = (reg[i].viewId = id)]]

\* viewRegistry.unregister(viewId): the view is removed, and with it its
\* focus.
unregister(reg, id) == SelectSeq(reg, LAMBDA v : v.viewId # id)

\* viewRegistry.getByType(viewType).
getByType(reg, viewType) == SelectSeq(reg, LAMBDA v : v.viewType = viewType)

\* plugin.getFloatingChatInstances(): the ids of the floating chats.
getFloatingChatInstances(reg) ==
    [i \in 1..Len(getByType(reg, "floating")) |-> getByType(reg, "floating")[i].viewId]

Plugin(fn, arg) == Call(fn, <<arg>>, <<>>)

RECURSIVE RegistryAfter(_, _, _)
\* The registry after these calls on the plugin and the registry: a chat
\* opened by openNewFloatingChat mounts and registers as `kind` with the next
\* id, closeFloatingChat unmounts the chat, which unregisters it.
RegistryAfter(reg, cs, kind) ==
    IF cs = <<>> THEN reg
    ELSE LET c == Head(cs)
             r == IF c.fn = "openNewFloatingChat"
                  THEN register(reg, ViewId(nextViewId), kind)
                  ELSE IF c.fn = "closeFloatingChat" THEN unregister(reg, c.text[1])
                  ELSE IF c.fn = "viewRegistry.setFocused" THEN setFocused(reg, c.text[1])
                  ELSE IF c.fn = "viewRegistry.unregister" THEN unregister(reg, c.text[1])
                  ELSE reg
         IN  RegistryAfter(r, Tail(cs), kind)

(***************************************************************************)
(* The floating launcher (FloatingButtonComponent).                        *)
(***************************************************************************)
RECURSIVE LabelFrom(_, _, _, _)
\* entries.map of instanceLabels from the entry j on, indexMap being the map
\* of the label to the occurrences met so far.
LabelFrom(entries, countMap, indexMap, j) ==
    IF j > Len(entries) THEN <<>>
    ELSE LET e == entries[j]
         IN  IF countMap[e.label] > 1
             THEN LET idx == indexMap[e.label] + 1
                  IN  << [ viewId |-> e.viewId,
                           label |-> IF idx = 1 THEN e.label
                                     ELSE e.label \o " " \o ToString(idx) ] >>
                      \o LabelFrom(entries, countMap,
                                   [indexMap EXCEPT ![e.label] = idx], j + 1)
             ELSE << e >> \o LabelFrom(entries, countMap, indexMap, j + 1)

\* instanceLabels numbering every view by its place in the list.
instanceLabelsNumberingAll(reg) ==
    LET views == getByType(reg, "floating")
    IN  [j \in 1..Len(views) |->
            [ viewId |-> views[j].viewId,
              label |-> views[j].name \o " " \o ToString(j) ]]

\* instanceLabels: the memo's function, on the registry it reads.
instanceLabels(reg) ==
    LET views == getByType(reg, "floating")
        entries == [j \in 1..Len(views) |->
                       [viewId |-> views[j].viewId, label |-> views[j].name]]
        countMap == [n \in Names |->
                       Cardinality({ j \in 1..Len(entries) : entries[j].label = n })]
    IN  LabelFrom(entries, countMap, [n \in Names |-> 0], 1)

\* The entries the open menu lists: the launcher is rendered again, and the
\* memo computed again, whenever the set of instances changes.
ListedLabels == instanceLabels(registry)

Listed(id) == \E j \in 1..Len(ListedLabels) : ListedLabels[j].viewId = id

\* handleButtonClick opening the menu from one instance on.
handleButtonClickMenuFromOne(reg) ==
    LET instances == getFloatingChatInstances(reg)
    IN  IF Len(instances) = 0 THEN << Plugin("openNewFloatingChat", "true") >>
        ELSE << Plugin("setShowInstanceMenu", "true") >>

\* handleButtonClick: the calls it makes.
handleButtonClick(reg) ==
    LET instances == getFloatingChatInstances(reg)
    IN  IF Len(instances) = 0 THEN << Plugin("openNewFloatingChat", "true") >>
        ELSE IF Len(instances) = 1 THEN << Plugin("expandFloatingChat", instances[1]) >>
        ELSE << Plugin("setShowInstanceMenu", "true") >>

\* The close button dismissing the menu whatever the number of entries.
closeButtonOnClickDismissing(id) ==
    << Call("stopPropagation", <<>>, <<>>), Plugin("closeFloatingChat", id),
       Plugin("setShowInstanceMenu", "false") >>

\* onClick of the close button of the entry id: the calls it makes.
closeButtonOnClick(id) ==
    << Call("stopPropagation", <<>>, <<>>), Plugin("closeFloatingChat", id) >>
    \o (IF Len(ListedLabels) <= 2 THEN << Plugin("setShowInstanceMenu", "false") >>
        ELSE <<>>)

\* The kind of a chat no call of the event opens.
NoKind == [viewType |-> "floating", name |-> "Chat"]

\* The state after an event of the launcher or of a view that made the
\* calls cs; a chat it opened is of this kind.
Launch(name, cs, kind) ==
    /\ calls' = cs
    /\ registry' = RegistryAfter(registry, cs, kind)
    /\ nextViewId' = IF Called(cs, "openNewFloatingChat") THEN nextViewId + 1
                     ELSE nextViewId
    /\ showInstanceMenu' =
           (LastCall(cs, "setShowInstanceMenu",
                     Plugin("setShowInstanceMenu",
                            IF showInstanceMenu THEN "true" ELSE "false")).text
              = << "true" >>)
    /\ event' = Ev(name)
    /\ UNCHANGED inputState
    /\ UNCHANGED fontState

\* A click on the launcher button (FloatingButton.tsx line 144).
ClickLauncher ==
    \E n \in Names :
        /\ Called(handleButtonClick(registry), "openNewFloatingChat")
              => nextViewId <= MaxViews
        /\ Launch("launcher", handleButtonClick(registry),
                  [viewType |-> "floating", name |-> n])

\* A click on an entry of the menu (FloatingButton.tsx lines 168-172).
ClickMenuItem ==
    \E id \in ViewIds :
        /\ showInstanceMenu
        /\ Listed(id)
        /\ Launch("menuItem",
                  << Plugin("expandFloatingChat", id),
                     Plugin("viewRegistry.setFocused", id),
                     Plugin("setShowInstanceMenu", "false") >>, NoKind)

\* A click on the label of an entry of the menu (part_000 lines 1247-1251).
ClickMenuLabel ==
    \E id \in ViewIds :
        /\ showInstanceMenu
        /\ Listed(id)
        /\ Launch("menuLabel",
                  << Plugin("expandFloatingChat", id),
                     Plugin("setShowInstanceMenu", "false") >>, NoKind)

\* A click on the close button of an entry of the menu, which is rendered
\* when more than one entry is listed.
ClickCloseButton ==
    \E id \in ViewIds :
        /\ showInstanceMenu
        /\ Listed(id)
        /\ Len(ListedLabels) > 1
        /\ Launch("closeButton", closeButtonOnClick(id), NoKind)

\* A mousedown outside the open menu.
ClickOutside ==
    /\ showInstanceMenu
    /\ Launch("clickOutside", << Plugin("setShowInstanceMenu", "false") >>, NoKind)

\* A view mounts and registers.
RegisterView ==
    \E kind \in ViewKinds :
        /\ nextViewId <= MaxViews
        /\ calls' = << Plugin("viewRegistry.register", ViewId(nextViewId)) >>
        /\ registry' = register(registry, ViewId(nextViewId), kind)
        /\ nextViewId' = nextViewId + 1
        /\ event' = Ev("register")
        /\ UNCHANGED << showInstanceMenu, inputState >>
        /\ UNCHANGED fontState

\* A view unmounts and unregisters.
UnregisterView ==
    \E id \in ViewIds :
        /\ IsRegistered(registry, id)
        /\ Launch("unregister", << Plugin("viewRegistry.unregister", id) >>, NoKind)

\* A view is given the focus: setFocused(viewId).
FocusView ==
    \E id \in ViewIds :
        Launch("setFocused", << Plugin("viewRegistry.setFocused", id) >>, NoKind)

(***************************************************************************)
(* The header menu (HeaderMenu), while it is mounted.  It has no state of  *)
(* its own: an event is modelled by the calls it makes on its props.       *)
(***************************************************************************)
\* availableAgents: the ids of the agents listed.
availableAgents == {"a1", "a2"}

OnClose == Call("onClose", <<>>, <<>>)

\* The action callback of each item: onSwitchAgent(agent.id) for an agent
\* entry, and those of the three fixed items.
ItemActions ==
    { Call("onSwitchAgent", <<id>>, <<>>) : id \in availableAgents }
    \cup { Call(fn, <<>>, <<>>) :
              fn \in {"onOpenNewView", "onRestartAgent", "onOpenPluginSettings"} }

\* onClick of an item calling onClose before the action.
itemOnClickCloseFirst(action) == << OnClose, action >>

\* onClick of an item (lines 135-138, 155-158, 170-173, 187-190).
itemOnClick(action) == << action, OnClose >>

\* Where a mousedown may land; the anchor button may be gone
\* (anchorRef.current null).
MouseDownTargets == {"menu", "anchor", "outside"}

\* handleClickOutside(event) of lines 67-76; menuRef.current is set while
\* the menu is mounted.
handleClickOutside(target, anchorMounted) ==
    IF target # "menu" /\ anchorMounted /\ target # "anchor" THEN << OnClose >>
    ELSE <<>>

\* handleKeyDown(event) of the menu, lines 87-92.
HeaderMenuHandleKeyDown(key) ==
    IF key = "Escape" THEN << OnClose, PreventDefault >> ELSE <<>>

\* A click on an item of the header menu.
ClickHeaderMenuItem ==
    \E action \in ItemActions :
        /\ Apply(itemOnClick(action))
        /\ event' = Ev("menu:item")
        /\ inflight' = Touch(inflight)
        /\ UNCHANGED << batches, isDraggingOver, dragCounter >>

\* A mousedown somewhere in the document while the menu is mounted.
HeaderMenuMouseDown ==
    \E target \in MouseDownTargets, anchorMounted \in BOOLEAN :
        /\ target = "anchor" => anchorMounted
        /\ Apply(handleClickOutside(target, anchorMounted))
        /\ event' = Ev("menu:mousedown:" \o target
                          \o (IF anchorMounted THEN "" ELSE ":noanchor"))
        /\ inflight' = Touch(inflight)
        /\ UNCHANGED << batches, isDraggingOver, dragCounter >>

\* A keydown somewhere in the document while the menu is mounted.
HeaderMenuKeyDown ==
    \E key \in {"Escape", "Enter", "a"} :
        /\ Apply(HeaderMenuHandleKeyDown(key))
        /\ event' = Ev("menu:keydown:" \o key)
        /\ inflight' = Touch(inflight)
        /\ UNCHANGED << batches, isDraggingOver, dragCounter >>

(***************************************************************************)
(* parseChatFontSize.  A JavaScript value is a record of its typeof, its   *)
(* number and its string.  A number is NaN, an infinity, a finite number   *)
(* of magnitude below 10^8 held exactly as a count of quarters, or a       *)
(* finite number of greater magnitude ("+big", "-big").                    *)
(***************************************************************************)
CHAT_FONT_SIZE_MIN == 10

CHAT_FONT_SIZE_MAX == 24

\* The longest of the strings drawn from FontChars.
MaxChars == 3

NaN == [kind |-> "nan", q |-> 0]

Infinity(sign) == [kind |-> IF sign < 0 THEN "-inf" ELSE "+inf", q |-> 0]

Huge(sign) == [kind |-> IF sign < 0 THEN "-big" ELSE "+big", q |-> 0]

\* The number q / 4.
Finite(q) == [kind |-> "fin", q |-> q]

JsNull == [type |-> "null", num |-> NaN, str |-> <<>>]

JsUndefined == [type |-> "undefined", num |-> NaN, str |-> <<>>]

\* A value that is neither a number nor a string.
JsOther(type) == [type |-> type, num |-> NaN, str |-> <<>>]

JsNumber(n) == [type |-> "number", num |-> n, str |-> <<>>]

JsString(s) == [type |-> "string", num |-> NaN, str |-> s]

Digits == {"0", "1", "2", "3", "4", "5", "6", "7", "8", "9"}

DigitValue(c) == CHOOSE n \in 0..9 : ToString(n) = c

\* /^-?\d+$/.test(s)
MatchesInteger(s) ==
    LET body == IF s # <<>> /\ Head(s) = "-" THEN Tail(s) ELSE s
    IN  /\ Len(body) >= 1
        /\ \A i \in 1..Len(body) : body[i] \in Digits

RECURSIVE StripZeros(_)
\* The digits without their leading zeros.
StripZeros(ds) ==
    IF ds = <<>> THEN ds
    ELSE IF Head(ds) = "0" THEN StripZeros(Tail(ds)) ELSE ds

RECURSIVE DecimalValue(_)
\* The integer these digits write.
DecimalValue(ds) ==
    IF ds = <<>> THEN 0
    ELSE 10 * DecimalValue(SubSeq(ds, 1, Len(ds) - 1)) + DigitValue(ds[Len(ds)])

RECURSIVE DigitsBelow(_, _)
\* Of two digit strings of one length, the first writes the smaller number.
DigitsBelow(a, b) ==
    IF a = <<>> THEN FALSE
    ELSE IF Head(a) # Head(b) THEN DigitValue(Head(a)) < DigitValue(Head(b))
    ELSE DigitsBelow(Tail(a), Tail(b))

\* The first 21 of the 309 digits of 2^1024 - 2^970, from which on an
\* integer has no finite double: the Number value of it is an infinity.
DOUBLE_OVERFLOW ==
    << "1", "7", "9", "7", "6", "9", "3", "1", "3", "4", "8", "6", "2", "3", "1", "5", "8",
       "0", "7", "9", "3" >>

\* Number.parseInt(s, 10) of a string that MatchesInteger: the Number value
\* of the integer it writes.
parseInt(s) ==
    LET sign == IF Head(s) = "-" THEN -1 ELSE 1
        sig == StripZeros(IF Head(s) = "-" THEN Tail(s) ELSE s)
    IN  IF Len(sig) <= 8 THEN Finite(sign * 4 * DecimalValue(sig))
        ELSE IF Len(sig) < 309 THEN Huge(sign)
        ELSE IF Len(sig) = 309 /\ DigitsBelow(SubSeq(sig, 1, 21), DOUBLE_OVERFLOW)
             THEN Huge(sign)
        ELSE Infinity(sign)

\* Number.isFinite(n)
isFinite(n) == n.kind \in {"fin", "+big", "-big"}

\* Math.round(n): the nearest integer, a half going up; an integer, which a
\* double of magnitude 10^8 or more is, stays as it is.
MathRound(n) == IF n.kind = "fin" THEN Finite(4 * ((n.q + 2) \div 4)) ELSE n

\* Math.max(lo, n) of the integer lo and the number n.
MathMax(lo, n) ==
    IF n.kind \in {"nan", "+inf", "+big"} THEN n
    ELSE IF n.kind \in {"-inf", "-big"} THEN Finite(4 * lo)
    ELSE IF n.q < 4 * lo THEN Finite(4 * lo) ELSE n

\* Math.min(hi, n) of the integer hi and the number n.
MathMin(hi, n) ==
    IF n.kind \in {"nan", "-inf", "-big"} THEN n
    ELSE IF n.kind \in {"+inf", "+big"} THEN Finite(4 * hi)
    ELSE IF n.q > 4 * hi THEN Finite(4 * hi) ELSE n

\* parseChatFontSize(value): null, or the number returned.
parseChatFontSize(value) ==
    IF value.type = "null" \/ value.type = "undefined" THEN JsNull
    ELSE LET numericValue ==
                 IF value.type = "number" THEN value.num
                 ELSE IF value.type = "string"
                 THEN LET trimmedValue == Trim(value.str)
                      IN  IF Len(trimmedValue) = 0 THEN NaN
                          ELSE IF ~MatchesInteger(trimmedValue) THEN NaN
                          ELSE parseInt(trimmedValue)
                 ELSE NaN
         IN  IF ~isFinite(numericValue) THEN JsNull
             ELSE JsNumber(MathMin(CHAT_FONT_SIZE_MAX,
                                   MathMax(CHAT_FONT_SIZE_MIN, MathRound(numericValue))))

\* The characters of the short strings given to parseChatFontSize.
FontChars == {" ", "-", "0", "1", "2", "."}

RECURSIVE StringsUpTo(_)
\* The strings of at most n of these characters.
StringsUpTo(n) ==
    IF n = 0 THEN { <<>> }
    ELSE LET shorter == StringsUpTo(n - 1)
         IN  shorter \cup { Append(t, c) : t \in shorter, c \in FontChars }

\* The digit d followed by k zeros.
DigitAndZeros(d, k) == << d >> \o [i \in 1..k |-> "0"]

\* The long strings given to it: an optional minus sign, 1 or 2 and zeros,
\* up to the lengths about that of the greatest double.
LongStrings ==
    { sign \o DigitAndZeros(d, k) :
        sign \in { <<>>, << "-" >> }, d \in {"1", "2"}, k \in {7, 8, 307, 308, 309} }

\* The numbers given to it: the quarters from -2 to two above the greatest
\* size, and the numbers that are not small.
FontNumbers ==
    { Finite(q) : q \in (4 * CHAT_FONT_SIZE_MIN - 48)..(4 * CHAT_FONT_SIZE_MAX + 8) }
    \cup { NaN, Infinity(1), Infinity(-1), Huge(1), Huge(-1) }

\* The values given to parseChatFontSize.
FontValues ==
    { JsNull, JsUndefined, JsOther("boolean"), JsOther("object") }
    \cup { JsNumber(n) : n \in FontNumbers }
    \cup { JsString(t) : t \in StringsUpTo(MaxChars) \cup LongStrings }

\* parseChatFontSize is called with some value.
ParseChatFontSize ==
    \E value \in FontValues :
        /\ chatFontSizeValue' = value
        /\ chatFontSize' = parseChatFontSize(value)
        /\ event' = Ev("parseChatFontSize")
        /\ calls' = <<>>
        /\ UNCHANGED << inputState, launcherState >>

\* parseChatFontSize is called with what it returned: the size it gave is
\* saved and read again.
ReparseChatFontSize ==
    /\ chatFontSizeValue' = chatFontSize
    /\ chatFontSize' = parseChatFontSize(chatFontSize)
    /\ event' = Ev("reparseChatFontSize")
    /\ calls' = <<>>
    /\ UNCHANGED << inputState, launcherState >>

(***************************************************************************)
(* The specifications.                                                     *)
(***************************************************************************)
\* The component after its first render and effects: the agentId effect has
\* called onAttachedImagesChange([]).
Init ==
    /\ inputValue = <<>>
    /\ attachedImages = <<>>
    /\ hintText = NoHint
    /\ commandText = <<>>
    /\ isDraggingOver = FALSE
    /\ dragCounter = 0
    /\ restoredMessage = NoDraft
    /\ registry = <<>>
    /\ chatFontSizeValue = JsUndefined
    /\ chatFontSize = parseChatFontSize(JsUndefined)
    /\ nextViewId = 1
    /\ showInstanceMenu = FALSE
    /\ inflight = [s \in {"paste", "drop"} |-> NoBatch]
    /\ batches = 0
    /\ event = Ev("mount")
    /\ calls = << OnAttachedImagesChange(<<>>) >>

Next ==
    \/ InputChange
    \/ ClickSend
    \/ KeyDown
    \/ Paste
    \/ Drop
    \/ DecodeDone
    \/ RemoveImage
    \/ SwitchAgent
    \/ CallbackIdentityChange

Spec == Init /\ [][Next]_vars

\* The component one image below the cap, a drop in flight: the state after
\* MAX_IMAGE_COUNT - 1 pastes of one PNG each and the drop of one more PNG,
\* whose decode is awaited.
InitCap ==
    /\ inputValue = <<>>
    /\ attachedImages = [i \in 1..(MAX_IMAGE_COUNT - 1) |-> AttachedImage(Png2M)]
    /\ hintText = NoHint
    /\ commandText = <<>>
    /\ isDraggingOver = FALSE
    /\ dragCounter = 0
    /\ restoredMessage = NoDraft
    /\ registry = <<>>
    /\ chatFontSizeValue = JsUndefined
    /\ chatFontSize = parseChatFontSize(JsUndefined)
    /\ nextViewId = 1
    /\ showInstanceMenu = FALSE
    /\ inflight = [s \in {"paste", "drop"} |->
                     IF s = "drop" THEN processImageFiles(NewBatch(<< Png2M >>), 1)
                     ELSE NoBatch]
    /\ batches = 0
    /\ event = Ev("drop")
    /\ calls = << PreventDefault >>

\* The events that read or write attachedImages.
NextCap ==
    \/ ClickSendAccepted
    \/ Paste
    \/ Drop
    \/ DecodeDone
    \/ RemoveImage
    \/ SwitchAgent
    \/ CallbackIdentityChange

SpecCap == InitCap /\ [][NextCap]_vars

\* The drag events over the input box and the drop that ends them.
NextDrag ==
    \/ DragEnter
    \/ DragLeave
    \/ Drop
    \/ Paste
    \/ DecodeDone

SpecDrag == Init /\ [][NextDrag]_vars

\* The component with one image attached: the state after the paste of one
\* PNG and its decode.
InitKeys ==
    /\ inputValue = <<>>
    /\ attachedImages = << AttachedImage(Png2M) >>
    /\ hintText = NoHint
    /\ commandText = <<>>
    /\ isDraggingOver = FALSE
    /\ dragCounter = 0
    /\ restoredMessage = NoDraft
    /\ registry = <<>>
    /\ chatFontSizeValue = JsUndefined
    /\ chatFontSize = parseChatFontSize(JsUndefined)
    /\ nextViewId = 1
    /\ showInstanceMenu = FALSE
    /\ inflight = [s \in {"paste", "drop"} |-> NoBatch]
    /\ batches = 1
    /\ event = [ name |-> "decode", hadImages |-> FALSE, submit |-> FALSE,
                 props |-> NoProps,
                 batch |-> [NoBatch EXCEPT !.files = << Png2M >>, !.addedCount = 1,
                                           !.decoded = << 1 >>, !.done = TRUE] ]
    /\ calls = << OnAttachedImagesChange(<< AttachedImage(Png2M) >>) >>

\* The events that read or write the text, the hint and the draft.
NextKeys ==
    \/ InputChange
    \/ KeyDown
    \/ ClickSend
    \/ ClickSlashSuggestion
    \/ ClickMentionSuggestion
    \/ ProvideDraft
    \/ SetInputState
    \/ HostCallbackSettles

SpecKeys == InitKeys /\ [][NextKeys]_vars

\* The events of the header menu, and those of the chat input of the same
\* view that change its text.
NextMenu ==
    \/ ClickHeaderMenuItem
    \/ HeaderMenuMouseDown
    \/ HeaderMenuKeyDown
    \/ InputChange
    \/ ClickSlashSuggestion
    \/ ClickSend

SpecMenu == InitKeys /\ [][NextMenu]_vars

\* The calls of parseChatFontSize.
NextFont ==
    \/ ParseChatFontSize
    \/ ReparseChatFontSize

SpecFont == Init /\ [][NextFont]_vars

\* The events of the floating launcher and of the views.
NextLauncher ==
    \/ ClickLauncher
    \/ ClickMenuItem
    \/ ClickMenuLabel
    \/ ClickCloseButton
    \/ ClickOutside
    \/ RegisterView
    \/ UnregisterView
    \/ FocusView

SpecLauncher == Init /\ [][NextLauncher]_vars

(***************************************************************************)
(* The claims.                                                             *)
(***************************************************************************)
\* The trimmed text is empty: the text is whitespace only.
AllWhite(s) == \A i \in 1..Len(s) : s[i] \in WhiteSpace

HasContent == ~AllWhite(inputValue) \/ Len(attachedImages) >= 1

\* The step is a submit gesture (a click on the send button or the submit
\* shortcut) made while no send is in flight.
SubmitWhileIdle == event'.submit /\ ~event'.props.isSending

\* C1: in every reachable state, whatever the interleaving of paste batches,
\* drop batches, removals, sends and agent switches (overlapping decodes of a
\* paste batch and a drop batch included), at most 10 images are attached.
C1_AtMostTenImages == Len(attachedImages) <= 10

\* A decode has filled the list to 10 while the batch of the other origin,
\* started from the same 9 images, still awaits its decode.
C1_OverlapAtCap ==
    /\ event.name = "decode"
    /\ Len(attachedImages) = 10
    /\ \E s \in DOMAIN inflight : inflight[s] # NoBatch /\ Len(inflight[s].images) = 9

\* C2: an accepted submit (not sending, text or images present) sets the
\* text and the image list to empty before it calls onSendMessage, and
\* onSendMessage gets the trimmed text and the images attached before the clear.
C2_ClearBeforeSend ==
    [][(SubmitWhileIdle /\ HasContent
            /\ event'.props.isSessionReady /\ ~event'.props.isRestoringSession)
         => /\ \E i, j, n \in 1..Len(calls') :
                  /\ i < n /\ j < n
                  /\ calls'[i] = OnInputChange(<<>>)
                  /\ calls'[j] = OnAttachedImagesChange(<<>>)
                  /\ calls'[n].fn = "onSendMessage"
                  /\ calls'[n].text = TrimEnd(TrimStart(inputValue))
                  /\ calls'[n].images = ImagePromptContent(attachedImages)
            /\ TimesCalled(calls', "onSendMessage") = 1
            /\ inputValue' = <<>>
            /\ attachedImages' = <<>>]_vars

\* A send of padded text with an image attached has happened.
C2_SentTextAndImage ==
    /\ event.submit /\ ~event.props.isSending
    /\ \E n \in 1..Len(calls) :
          /\ calls[n].fn = "onSendMessage"
          /\ calls[n].text = <<"a">>
          /\ calls[n].images # <<>>
    /\ inputValue = <<>>
    /\ attachedImages = <<>>

\* The step made no call on the host or on the component's own state: at
\* most e.preventDefault() on the event.
NoHostCall == \A i \in 1..Len(calls') : calls'[i].fn = "preventDefault"

InputStateUnchanged ==
    /\ inputValue' = inputValue
    /\ attachedImages' = attachedImages
    /\ hintText' = hintText
    /\ commandText' = commandText

\* C3 as stated: with the trimmed text empty and no image attached, a submit
\* gesture changes no input state and makes no host call, neither
\* onSendMessage nor onStopGeneration.
C3_EmptySubmitNoCall ==
    [][(event'.submit /\ AllWhite(inputValue) /\ Len(attachedImages) = 0)
         => InputStateUnchanged /\ NoHostCall]_vars

\* C3, amended: with the trimmed text empty and no image attached, a submit
\* gesture made while no send is in flight changes no input state and makes
\* no host call.
C3_EmptySubmitNoCallWhileIdle ==
    [][(SubmitWhileIdle /\ AllWhite(inputValue) /\ Len(attachedImages) = 0)
         => InputStateUnchanged /\ NoHostCall]_vars

\* A submit gesture on a whitespace-only text, the session ready, did nothing.
C3_BlankSubmitIgnored ==
    /\ event.submit /\ ~event.props.isSending
    /\ event.props.isSessionReady /\ ~event.props.isRestoringSession
    /\ inputValue = << " " >>
    /\ attachedImages = <<>>
    /\ \A i \in 1..Len(calls) : calls[i].fn = "preventDefault"

\* C4: while no send is in flight, a submit gesture calls onSendMessage if
\* and only if (the trimmed text is not empty or an image is attached) and
\* the session is ready and no session is being restored.
C4_SendIffEnabled ==
    [][SubmitWhileIdle
         => (Called(calls', "onSendMessage")
               <=> (HasContent /\ event'.props.isSessionReady
                      /\ ~event'.props.isRestoringSession))]_vars

\* A submit gesture with text, the session ready but being restored, sent
\* nothing.
C4_NoSendWhileRestoring ==
    /\ event.submit /\ ~event.props.isSending
    /\ event.props.isSessionReady /\ event.props.isRestoringSession
    /\ ~AllWhite(inputValue)
    /\ ~Called(calls, "onSendMessage")

\* C5: while a send is in flight the send/stop button is enabled whatever the
\* text, the images, the readiness and the restoration are, and a click on it
\* calls onStopGeneration exactly once, never onSendMessage, and leaves the
\* text and the images as they were.
C5_StopWhileSending ==
    [][/\ \A p \in Props : p.isSending => ~isButtonDisabled(p)
       /\ (event'.name = "click" /\ event'.props.isSending)
             => /\ TimesCalled(calls', "onStopGeneration") = 1
                /\ ~Called(calls', "onSendMessage")
                /\ inputValue' = inputValue
                /\ attachedImages' = attachedImages]_vars

\* A click stopped the generation with nothing typed or attached, the
\* session not ready and being restored.
C5_StoppedWithEmptyInput ==
    /\ event.name = "click"
    /\ event.props.isSending
    /\ ~event.props.isSessionReady /\ event.props.isRestoringSession
    /\ inputValue = <<>>
    /\ attachedImages = <<>>
    /\ TimesCalled(calls, "onStopGeneration") = 1

\* The images of these files, in order.
ImagesOf(files) == [i \in 1..Len(files) |-> AttachedImage(files[i])]

\* C6: when a batch of k >= 1 files, all accepted (no notice, no failed
\* decode), started from n images with n + k <= 10, finishes with no other
\* event in between, the list is the n images followed by the k new ones in
\* batch order.
C6_BatchAppendsAll ==
    LET b == event.batch
    IN  (/\ b.done /\ ~b.interleaved
         /\ Len(b.files) >= 1
         /\ b.notices = <<>> /\ b.failed = {}
         /\ Len(b.images) + Len(b.files) <= 10)
        => attachedImages = b.images \o ImagesOf(b.files)

Oversize(file) == file.size > 5 * 1024 * 1024

\* The batches in flight and the batch the last event ended.
KnownBatches == { inflight[s] : s \in DOMAIN inflight } \cup { event.batch }

\* The positions of its files a batch has gone through: all of them once it
\* has ended, those before the one the cap stopped it at, those up to the
\* one whose decode it awaits.
Reached(b) ==
    IF b.done
    THEN (IF b.stoppedAt = 0 THEN 1..Len(b.files) ELSE 1..(b.stoppedAt - 1))
    ELSE 1..b.pos

Decoded(b) == { b.decoded[j] : j \in 1..Len(b.decoded) }

SizeNotices(b) == Cardinality({ j \in 1..Len(b.notices) : b.notices[j] = "tooLarge" })

NoOversizeAttached ==
    \A j \in 1..Len(attachedImages), f \in FilePool :
        Oversize(f) => attachedImages[j] # AttachedImage(f)

\* C7 as stated: in every batch a file above 5 MiB is never decoded or
\* attached, one size notice is emitted for each such file and the files
\* after it are still processed; no attached image is above 5 MiB.
C7_OversizeSkippedAlways ==
    /\ NoOversizeAttached
    /\ \A b \in KnownBatches :
          /\ \A i \in 1..Len(b.files) : Oversize(b.files[i]) => i \notin Decoded(b)
          /\ b.done =>
                /\ SizeNotices(b)
                     = Cardinality({ i \in 1..Len(b.files) : Oversize(b.files[i]) })
                /\ \A i, j \in 1..Len(b.files) :
                      (Oversize(b.files[i]) /\ i < j /\ ~Oversize(b.files[j]))
                      => j \in Decoded(b)

\* C7, amended: in every batch a file above 5 MiB is never decoded or
\* attached; one size notice is emitted for each such file the batch goes
\* through before the cap of 10 images stops it, and the other files it goes
\* through are decoded; the files from the stop on get no check and no
\* notice.  No attached image is above 5 MiB.
C7_OversizeSkippedUntilCap ==
    /\ NoOversizeAttached
    /\ \A b \in KnownBatches :
          /\ \A i \in 1..Len(b.files) : Oversize(b.files[i]) => i \notin Decoded(b)
          /\ SizeNotices(b)
               = Cardinality({ i \in Reached(b) : Oversize(b.files[i]) })
          /\ \A i \in Reached(b) : ~Oversize(b.files[i]) => i \in Decoded(b)
          /\ \A i \in 1..Len(b.files) : i \notin Reached(b) => i \notin Decoded(b)

\* A batch has skipped its first file, above 5 MiB, with one notice and has
\* attached its second, of exactly 5 MiB.
C7_SkippedThenAttached ==
    LET b == event.batch
    IN  /\ b.done
        /\ b.files = << Jpeg5M1, Jpeg5M >>
        /\ b.notices = << "tooLarge" >>
        /\ b.decoded = << 2 >>
        /\ b.failed = {}
        /\ attachedImages # <<>>
        /\ attachedImages[Len(attachedImages)] = AttachedImage(Jpeg5M)

\* C8: when the agent supports no images, a paste or a drop with at least
\* one file of a whitelisted type attaches nothing, starts no batch, shows
\* exactly one notice, the 'not supported' one, and prevents the default.
C8_UnsupportedRejected ==
    [][event'.name \in {"paste", "drop"}
         => \A files \in FileLists :
              (/\ \E i \in 1..Len(files) : files[i].type \in SUPPORTED_IMAGE_TYPES
               /\ handlePaste(files, FALSE) \/ handleDrop(files, FALSE))
              => /\ attachedImages' = attachedImages
                 /\ ~Called(calls', "onAttachedImagesChange")
                 /\ batches' = batches
                 /\ \A s \in DOMAIN inflight :
                       inflight[s] = NoBatch => inflight'[s] = NoBatch
                 /\ TimesCalled(calls', "Notice") = 1
                 /\ NoticeCount(calls', "notSupported") = 1
                 /\ Called(calls', "preventDefault")]_vars

\* A paste or drop was rejected as not supported while an image was attached.
C8_RejectedWithImageAttached ==
    /\ event.name \in {"paste", "drop"}
    /\ NoticeCount(calls, "notSupported") = 1
    /\ attachedImages # <<>>

\* C9: a change of agentId sets the image list to empty and leaves the text
\* as it was.
C9_AgentSwitchClearsImages ==
    [][event'.name = "agentId"
         => attachedImages' = <<>> /\ inputValue' = inputValue]_vars

\* The agent was switched with text typed and images attached.
C9_SwitchedWithTextAndImages ==
    /\ event.name = "agentId"
    /\ event.hadImages
    /\ inputValue # <<>>
    /\ attachedImages = <<>>

IsPrefix(s, t) == Len(s) <= Len(t) /\ SubSeq(t, 1, Len(s)) = s

\* C10: an attached image leaves the list only by removeImage, by an
\* accepted send or by a change of agentId; no other event removes one.
C10_RemovedOnlyByRemoveSendSwitch ==
    [][~IsPrefix(attachedImages, attachedImages')
         => \/ event'.name \in {"removeImage", "agentId"}
            \/ event'.submit /\ Called(calls', "onSendMessage")]_vars

(***************************************************************************)
(* The suggestion dropdowns and the keyboard.                              *)
(***************************************************************************)
\* The dropdown the keys go to: the slash-command one when it is open.
ActiveEngine(k) == IF k.slashIsOpen THEN "slashCommands" ELSE "mentions"

OtherEngine(k) == IF k.slashIsOpen THEN "mentions" ELSE "slashCommands"

\* No call of this log is made on this engine.
NoCallOn(cs, engine) ==
    \A i \in 1..Len(cs) :
        cs[i].fn \notin { engine \o ".close", engine \o ".selectSuggestion",
                          engine \o ".navigate", engine \o ".updateSuggestions" }

\* A key event with nothing pressed along, nothing open, nothing highlighted.
PlainKey(key) ==
    [ key |-> key, isComposing |-> FALSE, shiftKey |-> FALSE, modKey |-> FALSE,
      sendMessageShortcut |-> "enter", slashIsOpen |-> FALSE, mentionsIsOpen |-> FALSE,
      selected |-> NoSelection, props |-> NoProps ]

\* The flags <<slashIsOpen, mentionsIsOpen>> with a dropdown open.
OpenFlags == { o \in BOOLEAN \X BOOLEAN : o[1] \/ o[2] }

\* The events of KeyEvents with the key Escape and a dropdown open.
EscapeKeys ==
    { [PlainKey("Escape") EXCEPT !.slashIsOpen = o[1], !.mentionsIsOpen = o[2]] :
        o \in OpenFlags }

\* C12: with a dropdown open, Escape calls close() on the active engine (the
\* slash-command one if it is open, else the mention one) and nothing on the
\* other, leaves text, images and hint as they were and sends nothing.
C12_EscapeClosesActiveOnly ==
    [][\A k \in EscapeKeys :
          event'.name = "keydown" /\ KeyDownEvent(k)
             => /\ calls' = << PreventDefault, Engine(ActiveEngine(k) \o ".close", "") >>
                /\ NoCallOn(calls', OtherEngine(k))
                /\ InputStateUnchanged
                /\ ~Called(calls', "onSendMessage")]_vars

\* Escape closed the mention dropdown with text typed, a hint shown and an
\* image attached.
C12_EscapedWithHintAndImage ==
    /\ event.name = "keydown"
    /\ calls = << PreventDefault, Engine("mentions.close", "") >>
    /\ inputValue # <<>>
    /\ hintText # NoHint
    /\ attachedImages # <<>>

\* The events of KeyEvents with the key Enter or Tab and a dropdown open.
SelectKeys ==
    { [PlainKey(x[1]) EXCEPT !.isComposing = x[2], !.slashIsOpen = x[3][1],
                             !.mentionsIsOpen = x[3][2], !.selected = x[4]] :
        x \in { y \in {"Enter", "Tab"} \X BOOLEAN \X OpenFlags
                       \X (availableCommands \cup Notes \cup {NoSelection}) :
                  /\ y[2] => y[1] = "Enter" /\ y[4] = NoSelection
                  /\ y[4] \in availableCommands => y[3][1]
                  /\ y[4] \in Notes => ~y[3][1] } }

\* The text (and for a command the hint) after the highlighted suggestion of
\* the active dropdown was applied.
SuggestionApplied(k) ==
    IF k.slashIsOpen
    THEN /\ inputValue' = SlashSelectSuggestion(inputValue, k.selected)
         /\ hintText' = k.selected.hint
    ELSE /\ inputValue' = MentionSelectSuggestion(inputValue, k.selected.name)
         /\ hintText' = hintText

C14_HintGoneWhenTextDiverges ==
    [][(/\ hintText # NoHint
        /\ inputValue' # inputValue
        /\ inputValue' # commandText \o hintText
        /\ ~Called(calls', "slashCommands.selectSuggestion"))
          => hintText' = NoHint]_vars

(***************************************************************************)
(* The restored draft.                                                     *)
(***************************************************************************)
Consumed(cs) == Called(cs, "onRestoredMessageConsumed")

CapNotices(b) == Cardinality({ j \in 1..Len(b.notices) : b.notices[j] = "max" })

\* The running count when the batch reached its file j: the images before
\* the batch and those it added from the files before j.
RunningCount(b, j) ==
    Len(b.images) + Cardinality({ i \in Decoded(b) : i < j /\ i \notin b.failed })

\* C20: in every batch the file reached with the running count at 10 is
\* rejected with the cap notice, the last notice of the batch, and is not
\* given to the decoder, so it is never attached, nor is any file after it;
\* a file that was given to the decoder was reached below 10, and a batch
\* that met no such file shows no cap notice.
C20_AtCapRejectedWithNotice ==
    \A b \in KnownBatches :
        /\ \A j \in Decoded(b) : RunningCount(b, j) < 10
        /\ b.stoppedAt = 0 => CapNotices(b) = 0
        /\ b.stoppedAt # 0
              => /\ RunningCount(b, b.stoppedAt) >= 10
                 /\ b.done
                 /\ CapNotices(b) = 1
                 /\ b.notices[Len(b.notices)] = "max"
                 /\ \A j \in Decoded(b) : j < b.stoppedAt

\* A batch attached one image, reached 10 with it and was stopped at its
\* second file.
C20_StoppedAtSecondFile ==
    /\ event.batch.stoppedAt = 2
    /\ event.batch.addedCount = 1
    /\ Len(event.batch.images) = 9
    /\ NoticeCount(calls, "max") = 1

(***************************************************************************)
(* The view registry and the floating launcher.                            *)
(***************************************************************************)
RegisteredIds(reg) == { reg[i].viewId : i \in 1..Len(reg) }

\* C16: after every register, setFocused and unregister (and every event of
\* the launcher that calls them) at most one view is focused and it is a
\* registered one; when the focused view is unregistered no view is focused
\* after it, and a view becomes the focused one only by a call of
\* setFocused.
C16_AtMostOneFocusedAndRegistered ==
    [][/\ Cardinality(Focused(registry')) <= 1
       /\ Focused(registry') \subseteq RegisteredIds(registry')
       /\ \A id \in Focused(registry) :
              id \notin RegisteredIds(registry') => Focused(registry') = {}
       /\ Focused(registry') \notin {Focused(registry), {}}
              => Called(calls', "viewRegistry.setFocused")]_vars

\* The focus was moved from one registered view to another.
C16_FocusMoved ==
    /\ event.name = "setFocused"
    /\ Len(registry) >= 2
    /\ registry[1].focused = FALSE
    /\ Focused(registry) = { registry[2].viewId }

\* C17: a click on the launcher with no floating instance opens one new
\* instance, expanded, and sets no menu state; with one instance it expands
\* that instance, opens none and sets no menu state; with two or more it
\* opens the menu and neither opens nor expands an instance.
C17_LauncherDispatch ==
    [][event'.name = "launcher"
          => LET instances == getFloatingChatInstances(registry)
             IN  /\ Len(instances) = 0
                      => /\ calls' = << Plugin("openNewFloatingChat", "true") >>
                         /\ Len(getFloatingChatInstances(registry')) = 1
                         /\ showInstanceMenu' = showInstanceMenu
                 /\ Len(instances) = 1
                      => /\ calls' = << Plugin("expandFloatingChat", instances[1]) >>
                         /\ registry' = registry
                         /\ showInstanceMenu' = showInstanceMenu
                 /\ Len(instances) >= 2
                      => /\ showInstanceMenu'
                         /\ registry' = registry
                         /\ ~Called(calls', "openNewFloatingChat")
                         /\ ~Called(calls', "expandFloatingChat")]_vars

\* The launcher opened the menu over two floating chats, the docked chat
\* being registered as well.
C17_MenuOpenedOverTwo ==
    /\ event.name = "launcher"
    /\ showInstanceMenu
    /\ Len(getFloatingChatInstances(registry)) = 2
    /\ Len(registry) = 3

\* C18: the close button is there only with more than one entry listed; a
\* click on it closes the instance of its entry, which leaves the list, and
\* the menu is dismissed in that step when two entries were listed and stays
\* open when three or more were.
C18_CloseButtonDismissesAtTwo ==
    [][event'.name = "closeButton"
          => LET n == Len(ListedLabels)
             IN  /\ showInstanceMenu
                 /\ n > 1
                 /\ \E id \in ViewIds :
                        /\ Listed(id)
                        /\ calls'[2] = Plugin("closeFloatingChat", id)
                        /\ id \notin RegisteredIds(registry')
                 /\ Len(instanceLabels(registry')) = n - 1
                 /\ n = 2 => ~showInstanceMenu'
                 /\ n >= 3 => showInstanceMenu']_vars

\* One of three entries was closed and the menu is still open over two.
C18_ClosedOneOfThree ==
    /\ event.name = "closeButton"
    /\ showInstanceMenu
    /\ Len(ListedLabels) = 2

\* How many of the floating views up to the j-th have its name.
Occurrence(views, j) ==
    Cardinality({ i \in 1..j : views[i].name = views[j].name })

\* C19: the labels listed are those of the floating views now registered,
\* in their order: the name for a view whose name no other has and for the
\* first of those that share a name, the name followed by a space and i for
\* the i-th of them, i >= 2.
C19_LabelsNumberDuplicates ==
    LET views == getByType(registry, "floating")
    IN  /\ Len(ListedLabels) = Len(views)
        /\ \A j \in 1..Len(views) :
               /\ ListedLabels[j].viewId = views[j].viewId
               /\ ListedLabels[j].label =
                      IF Occurrence(views, j) = 1 THEN views[j].name
                      ELSE views[j].name \o " " \o ToString(Occurrence(views, j))

\* The chats Chat, Chat, Research are listed as Chat, Chat 2, Research.
C19_ChatChat2Research ==
    /\ [j \in 1..Len(getByType(registry, "floating")) |->
           getByType(registry, "floating")[j].name] = << "Chat", "Chat", "Research" >>
    /\ [j \in 1..Len(ListedLabels) |-> ListedLabels[j].label]
          = << "Chat", "Chat 2", "Research" >>

(***************************************************************************)
(* Files that are no images.                                               *)
(***************************************************************************)
NoneWhitelisted(files) ==
    \A i \in 1..Len(files) :
        files[i].type \notin {"image/png", "image/jpeg", "image/gif", "image/webp"}

\* What a paste or drop without a whitelisted file leaves alone, the drag
\* state apart: no call (no notice, no preventDefault), text, images and
\* hint as they were, no batch started.
IgnoredAsNoImage ==
    /\ calls' = <<>>
    /\ InputStateUnchanged
    /\ batches' = batches
    /\ \A s \in DOMAIN inflight : (inflight[s] = NoBatch) <=> (inflight'[s] = NoBatch)

OnlyWhitelistedIngested ==
    /\ \A j \in 1..Len(attachedImages') :
           attachedImages'[j].mimeType
              \in {"image/png", "image/jpeg", "image/gif", "image/webp"}
    /\ \A s \in DOMAIN inflight : ~NoneWhitelisted(inflight'[s].files) \/ inflight'[s] = NoBatch

\* C21 as stated: no file of another type than the four whitelisted ones is
\* attached or taken into a batch, and a paste or drop without a
\* whitelisted file changes no state at all, makes no call and does not
\* prevent the default, with and without image support.
C21_NoImageNoStateChange ==
    [][/\ OnlyWhitelistedIngested
       /\ event'.name \in {"paste", "drop"}
             => \A files \in FileLists, supportsImages \in BOOLEAN :
                   (/\ NoneWhitelisted(files)
                    /\ handlePaste(files, supportsImages)
                          \/ handleDrop(files, supportsImages))
                     => /\ IgnoredAsNoImage
                        /\ UNCHANGED << isDraggingOver, dragCounter >>]_vars

\* C21, amended: as above for the text, the images, the hint, the batches
\* and the calls; a paste leaves the drag state alone as well, a drop ends
\* the drag (counter 0, highlight off) whatever it carries.
C21_NoImageNoInputChange ==
    [][/\ OnlyWhitelistedIngested
       /\ event'.name \in {"paste", "drop"}
             => \A files \in FileLists, supportsImages \in BOOLEAN :
                   (/\ NoneWhitelisted(files)
                    /\ handlePaste(files, supportsImages)
                          \/ handleDrop(files, supportsImages))
                     => /\ IgnoredAsNoImage
                        /\ event'.name = "paste"
                              => UNCHANGED << isDraggingOver, dragCounter >>
                        /\ event'.name = "drop"
                              => dragCounter' = 0 /\ ~isDraggingOver']_vars

\* A drop made no call while an image was attached.
C21_DropIgnoredWithImageAttached ==
    /\ event.name = "drop"
    /\ calls = <<>>
    /\ attachedImages # <<>>
    /\ dragCounter = 0
    /\ ~isDraggingOver

(***************************************************************************)
(* A decode that fails.                                                    *)
(***************************************************************************)
\* The batch of this origin after the step: in flight still, or the one the
\* event ended.
BatchAfter(slot) == IF inflight'[slot] # NoBatch THEN inflight'[slot] ELSE event'.batch

\* The files after the one whose decode failed are gone through as ever:
\* those above 5 MiB get their notice each, and the first of the others is
\* given to the decoder; the failure added no image, so the cap does not
\* stop the batch here.
RestProcessed(b, after) ==
    LET rest == (b.pos + 1)..Len(b.files)
        fits == { j \in rest : ~Oversize(b.files[j]) }
        next == IF fits = {} THEN Len(b.files) + 1
                ELSE CHOOSE j \in fits : \A i \in fits : j <= i
    IN  /\ after.stoppedAt = 0
        /\ NoticeCount(calls', "tooLarge") = next - b.pos - 1
        /\ NoticeCount(calls', "max") = 0
        /\ IF fits = {} THEN after.done
           ELSE ~after.done /\ after.pos = next /\ next \in Decoded(after)

\* C22: when the decode of a file of a batch fails, one failure notice is
\* shown, no image is attached and the list stays as it was, the batch does
\* not count the file as added, and the files after it are still gone
\* through.
C22_FailedDecodeSkipsOneFile ==
    [][event'.name = "decode"
          => \A slot \in DOMAIN inflight :
                DecodeSettles(slot, FALSE)
                   => LET b == inflight[slot]
                          after == BatchAfter(slot)
                      IN  /\ calls'[1] = Notice("failed")
                          /\ NoticeCount(calls', "failed") = 1
                          /\ ~Called(calls', "onAttachedImagesChange")
                          /\ attachedImages' = attachedImages
                          /\ after.addedCount = b.addedCount
                          /\ b.pos \in after.failed
                          /\ RestProcessed(b, after)]_vars

\* A batch from 9 images ended with its first decode failed and its second
\* file attached as the tenth image.
C22_SecondAttachedAfterFailure ==
    /\ event.name = "decode"
    /\ event.batch.done
    /\ event.batch.failed = {1}
    /\ event.batch.addedCount = 1
    /\ Len(event.batch.images) = 9
    /\ Len(attachedImages) = 10

(***************************************************************************)
(* Host callbacks that reject.                                             *)
(***************************************************************************)
\* C23: when onSendMessage or onStopGeneration rejects, after a click on the
\* button or after the keyboard shortcut, a notice is shown and the
\* rejection does not end as an unhandled one.
C23_RejectionBecomesNotice ==
    [][event'.name = "rejected"
          => /\ Called(calls', "Notice")
             /\ ~Called(calls', "unhandledrejection")]_vars

(***************************************************************************)
(* Labels that collide.                                                    *)
(***************************************************************************)
\* C24: the labels the menu lists are pairwise distinct, whatever the names
\* of the floating chats, names that end in a number included.
C24_LabelsPairwiseDistinct ==
    \A i, j \in 1..Len(ListedLabels) :
        i # j => ListedLabels[i].label # ListedLabels[j].label

(***************************************************************************)
(* The drag counter.                                                       *)
(***************************************************************************)
\* C25: after every dragenter, dragleave and drop, of files or not, the drag
\* counter is not negative and the highlight is on exactly when the counter
\* is above 0; after a drop the counter is 0 and the highlight off.
C25_CounterNeverNegative ==
    [][/\ dragCounter' >= 0
       /\ isDraggingOver' <=> dragCounter' > 0
       /\ event'.name = "drop" => dragCounter' = 0 /\ ~isDraggingOver']_vars

(***************************************************************************)
(* The header menu.                                                        *)
(***************************************************************************)
\* The calls of this log on the props of the menu.
MenuCallbacks(cs) ==
    SelectSeq(cs, LAMBDA c : c.fn \in {"onSwitchAgent", "onOpenNewView", "onRestartAgent",
                                       "onOpenPluginSettings", "onClose"})

\* C26: a click on an item calls the action of the item once and then
\* onClose once; Escape and a mousedown outside the menu and its anchor
\* button call onClose alone; a mousedown in the menu or on the anchor
\* button calls nothing; none of them touches the chat input.
C26_ItemThenClose ==
    [][/\ event'.name = "menu:item"
          => /\ Len(calls') = 2
             /\ calls'[1] \in ItemActions
             /\ calls'[2] = OnClose
       /\ event'.name \in {"menu:keydown:Escape", "menu:mousedown:outside"}
          => MenuCallbacks(calls') = << OnClose >>
       /\ event'.name \in {"menu:mousedown:menu", "menu:mousedown:anchor"}
          => calls' = <<>>
       /\ event'.name \in {"menu:item", "menu:keydown:Escape", "menu:mousedown:outside",
                           "menu:mousedown:menu", "menu:mousedown:anchor"}
          => InputStateUnchanged]_vars

\* The agent a2 was chosen in the menu with text typed and an image attached.
C26_AgentChosen ==
    /\ event.name = "menu:item"
    /\ calls = << Call("onSwitchAgent", << "a2" >>, <<>>), OnClose >>
    /\ inputValue # <<>>
    /\ attachedImages # <<>>

(***************************************************************************)
(* parseChatFontSize.                                                      *)
(***************************************************************************)
\* The values the claim lists as those of a null result.
ListedAsNull(value) ==
    \/ value.type \notin {"number", "string"}
    \/ value.type = "number" /\ value.num.kind \in {"nan", "+inf", "-inf"}
    \/ value.type = "string" /\ ~MatchesInteger(Trim(value.str))

\* The integer size is the number n rounded to the nearest integer and
\* clamped to [CHAT_FONT_SIZE_MIN, CHAT_FONT_SIZE_MAX].
RoundedAndClamped(size, n) ==
    LET Clamped(i) == IF i < CHAT_FONT_SIZE_MIN THEN CHAT_FONT_SIZE_MIN
                      ELSE IF i > CHAT_FONT_SIZE_MAX THEN CHAT_FONT_SIZE_MAX ELSE i
    IN  IF n.kind = "+big" THEN size = CHAT_FONT_SIZE_MAX
        ELSE IF n.kind = "-big" THEN size = CHAT_FONT_SIZE_MIN
        ELSE \E i \in ((n.q - 2) \div 4)..((n.q + 5) \div 4) :
                /\ 4 * i - n.q <= 2
                /\ n.q - 4 * i <= 2
                /\ size = Clamped(i)

\* The number a string of an optional minus sign and digits writes, whatever
\* its length.
WrittenNumber(s) ==
    LET sign == IF Head(s) = "-" THEN -1 ELSE 1
        sig == StripZeros(IF Head(s) = "-" THEN Tail(s) ELSE s)
    IN  IF Len(sig) <= 8 THEN Finite(sign * 4 * DecimalValue(sig)) ELSE Huge(sign)

\* C27: parseChatFontSize returns null exactly for null, undefined, values
\* that are neither number nor string, non-finite numbers and strings that
\* trimmed are not an optional minus sign and digits; for every other value
\* it returns the value rounded to the nearest integer and clamped to
\* [10, 24], an integer that parsed again is returned unchanged.
C27_NullExactlyForListed ==
    event.name \in {"parseChatFontSize", "reparseChatFontSize"}
    => /\ chatFontSize = JsNull <=> ListedAsNull(chatFontSizeValue)
       /\ chatFontSize # JsNull
          => /\ chatFontSize.type = "number"
             /\ chatFontSize.num.kind = "fin"
             /\ chatFontSize.num.q % 4 = 0
             /\ chatFontSize.num.q \div 4 \in CHAT_FONT_SIZE_MIN..CHAT_FONT_SIZE_MAX
             /\ RoundedAndClamped(chatFontSize.num.q \div 4,
                                  IF chatFontSizeValue.type = "number"
                                  THEN chatFontSizeValue.num
                                  ELSE WrittenNumber(Trim(chatFontSizeValue.str)))
             /\ parseChatFontSize(chatFontSize) = chatFontSize

\* The same for the strings of fewer than 309 significant digits, whose
\* number is a finite double.
C27_HoldsBelowOverflow ==
    ~ ( /\ chatFontSizeValue.type = "string"
        /\ MatchesInteger(Trim(chatFontSizeValue.str))
        /\ Len(Trim(chatFontSizeValue.str)) >= 309 )
    => C27_NullExactlyForListed

====
